---- MODULE Spec2Model ----
(***************************************************************************)
(* A model of brunnhilde.py: the characterization feed importer           *)
(* (import_csv), the statistics aggregator (get_stats), the PRONOM link   *)
(* rewriter (write_pronom_links) and the orchestration in main /          *)
(* process_content.                                                       *)
(*                                                                         *)
(* Three specifications share the module:                                 *)
(*   Spec      - the relational store: siegfried writes sf_file, then     *)
(*               import_csv and get_stats run; the store persists from    *)
(*               one run to the next.                                     *)
(*   SpecLinks - write_pronom_links applied to one line of the draft.     *)
(*   SpecMain  - the control flow of main, stage by stage.                *)
(* Text that the code inspects character by character (the modified       *)
(* column, file names, lines of the HTML draft) is a sequence of          *)
(* one-character strings; every other cell is an atomic string.           *)
(***************************************************************************)
EXTENDS Integers, Sequences, FiniteSets, TLC

\* ---------------------------------------------------------------- bounds
\* data rows siegfried writes in the run under study
MaxRows == 2
\* data rows siegfried writes in a run that precedes it on the same store
MaxPriorRows == 1
\* runs of the tool against the same destination directory
MaxRuns == 2
\* pieces of text the draft handed to write_pronom_links is made of
MaxTokens == 5
\* rows of the table generate_reports draws its sections from
MaxReportRows == 2
\* lines of the PII log handed to write_html
MaxPiiLines == 7
\* rows of a table of copies, the tables with several groups of duplicates
MaxCopyRows == 4
\* base-1024 digits of a total size handed to convert_size
MaxDigits == 10

VARIABLES
    \* --- the store (Spec)
    run,        \* number of the current run against the destination
    pc,         \* position in process_content
    use_hash,   \* main: use_hash
    sf_file,    \* siegfried.csv: the raw lines, each a tuple of cells
    table,      \* the siegfried table of siegfried.sqlite
    stats,      \* what get_stats wrote into the report
    csv_dir,    \* the temporary files of get_stats present in csv_dir
    \* --- write_pronom_links (SpecLinks)
    lpc,        \* position in write_pronom_links
    in_file,    \* the text of old_file (temp.html), character by character
    out_file,   \* the strings written to new_file, one per out_file.write
    \* --- main (SpecMain)
    mpc,        \* position in main / process_content
    args,       \* the parsed command line (and use_hash derived from it)
    html,       \* what has been written to temp.html, part by part
    html_open,  \* the handle html is open
    conn_open,  \* the sqlite connection conn is open
    files,      \* the files and directories present under report_dir
    log,        \* the orchestrator's events so far, in order
    failure,    \* why the run ended early, "none" otherwise
    \* --- generate_reports / write_html (SpecReport)
    rpc,        \* position in generate_reports: the section to come
    rtable,     \* the siegfried table the reports are drawn from
    rflags,     \* use_hash and args.showwarnings of the run
    section,    \* the header of the section handled last
    result,     \* the rows its query returned, in order
    csv_file,   \* the file read by write_html, line by line
    wrote_html, \* write_html was called for the section
    section_html, \* what write_html wrote for it, tag by tag
    \* --- convert_size (SpecSize)
    spc,        \* position: before or after the call of convert_size
    python,     \* the major version of the interpreter, 2 or 3
    size_bytes, \* the argument: its base-1024 digits, the highest first
    size        \* what the call returned or raised

storeVars == <<run, pc, use_hash, sf_file, table, stats, csv_dir>>
linkVars == <<lpc, in_file, out_file>>
mainVars == <<mpc, args, html, html_open, conn_open, files, log, failure>>
reportVars == <<rpc, rtable, rflags, section, result, csv_file, wrote_html, section_html>>
sizeVars == <<spc, python, size_bytes, size>>
vars == <<storeVars, linkVars, mainVars, reportVars, sizeVars>>

\* ------------------------------------------------------------ characters
NUL == "NUL"
Min(a, b) == IF a < b THEN a ELSE b

\* ------------------------------------------------------------ the schema
\* CREATE TABLE siegfried (...), with and without the hash column
Schema(hashed) ==
    IF hashed
    THEN <<"filename", "filesize", "modified", "errors", "hash", "namespace",
           "id", "format", "version", "mime", "basis", "warning">>
    ELSE <<"filename", "filesize", "modified", "errors", "namespace",
           "id", "format", "version", "mime", "basis", "warning">>

ColIndex(hashed, name) ==
    CHOOSE i \in 1..Len(Schema(hashed)) : Schema(hashed)[i] = name

\* the value of column name in row r of table t
Col(t, r, name) == r[ColIndex(t.hashed, name)]

NoTable == [exists |-> FALSE, hashed |-> FALSE, rows |-> <<>>]

\* ------------------------------------------------- what siegfried writes
Filenames == {<<"A">>, <<"B">>}
Sizes == {"0", "10"}
Hashes == {"H1", "H2"}
Modifieds == {<<"2", "0", "0", "1", "-", "0", "5">>}

Header12 == <<<<"filename">>, "filesize", <<"modified">>, "errors", "md5",
              "namespace", "id", "format", "version", "mime", "basis", "warning">>
Header11 == <<<<"filename">>, "filesize", <<"modified">>, "errors",
              "namespace", "id", "format", "version", "mime", "basis", "warning">>
Headers == {Header12, Header11}

Rows12 == { <<fn, sz, md, "", h, "pronom", "fmt/1", "F", "1", "m", "b", "">> :
              fn \in Filenames, sz \in Sizes, md \in Modifieds, h \in Hashes }
Rows11 == { <<fn, sz, md, "", "pronom", "fmt/1", "F", "1", "m", "b", "">> :
              fn \in Filenames, sz \in Sizes, md \in Modifieds }
\* a line damaged by a null byte in the file name
NulRow == <<<<"A", NUL>>, "10", <<"2", "0", "0", "1", "-", "0", "5">>, "", "H1",
            "pronom", "fmt/1", "F", "1", "m", "b", "">>
\* a file siegfried could not identify, with and without a format name
UnknownRows12 ==
    { <<<<"A">>, "10", <<"2", "0", "0", "1", "-", "0", "5">>, "", "H1",
        "pronom", "UNKNOWN", fm, "", "", "b", "no match">> : fm \in {"", "F"} }
\* a file of another year, and a file without a modification time
DatedRows12 ==
    { <<<<"A">>, "10", md, "", "H1", "pronom", "fmt/1", "F", "1", "m", "b", "">> :
        md \in {<<"1", "9", "9", "9", "-", "1", "2">>, <<>>} }
\* the same files in a run without hashing
OtherRows11 ==
    { SubSeq(r, 1, 4) \o SubSeq(r, 6, 12) : r \in UnknownRows12 \cup DatedRows12 }
DataRows == Rows12 \cup Rows11 \cup {NulRow} \cup UnknownRows12 \cup DatedRows12 \cup OtherRows11

\* ------------------------------------------------------------ import_csv
\* x.replace('\0', '') on a cell held character by character
StripNul(cell) == SelectSeq(cell, LAMBDA c : c # NUL)

\* csv.reader over the null-stripped lines: cells 1 (filename) and 3
\* (modified) are the ones held character by character
ReadRow(line) ==
    [i \in 1..Len(line) |-> IF i \in {1, 3} THEN StripNul(line[i]) ELSE line[i]]

ReadRows(file) == [i \in 1..Len(file) |-> ReadRow(file[i])]

\* import_csv(cursor, conn, use_hash) on the file f and the store's table t:
\* the table it leaves and whether cursor.execute raised
ImportCsvResult(f, hashed, t) ==
    LET reader == ReadRows(f)
    IN  IF reader = <<>>
        THEN \* the loop body never runs: no DROP, no CREATE
             [table |-> t, raised |-> FALSE]
        ELSE LET rowlen == Len(reader[1])
                 wanted == SelectSeq(Tail(reader), LAMBDA r : Len(r) = rowlen)
             IN  IF wanted # <<>> /\ rowlen # Len(Schema(hashed))
                 THEN \* INSERT of rowlen values into a table of another
                      \* width: sqlite3.OperationalError at the first such
                      \* row; DROP and CREATE are already in effect
                      [table |-> [exists |-> TRUE, hashed |-> hashed, rows |-> <<>>],
                       raised |-> TRUE]
                 ELSE [table |-> [exists |-> TRUE, hashed |-> hashed, rows |-> wanted],
                       raised |-> FALSE]

\* ------------------------------------------------------------- get_stats
Digits == {"0", "1", "2", "3", "4", "5", "6", "7", "8", "9"}

DigitVal(c) ==
    CASE c = "0" -> 0 [] c = "1" -> 1 [] c = "2" -> 2 [] c = "3" -> 3
      [] c = "4" -> 4 [] c = "5" -> 5 [] c = "6" -> 6 [] c = "7" -> 7
      [] c = "8" -> 8 [] c = "9" -> 9

\* ord() of the characters a modified value is written with
Ord(c) == IF c = "-" THEN 45 ELSE IF c = ":" THEN 58 ELSE 48 + DigitVal(c)

RECURSIVE NatVal(_)
NatVal(s) == IF s = <<>> THEN 0 ELSE 10 * NatVal(SubSeq(s, 1, Len(s) - 1)) + DigitVal(s[Len(s)])

\* float(s) succeeds: an optional sign and at least one digit (the other
\* spellings float accepts need characters outside Digits and "-")
FloatOk(s) ==
    LET body == IF s # <<>> /\ s[1] = "-" THEN Tail(s) ELSE s
    IN  body # <<>> /\ \A i \in 1..Len(body) : body[i] \in Digits

FloatVal(s) == IF s[1] = "-" THEN 0 - NatVal(Tail(s)) ELSE NatVal(s)

\* a < b for Python strings
RECURSIVE StrLess(_, _)
StrLess(a, b) ==
    IF b = <<>> THEN FALSE
    ELSE IF a = <<>> THEN TRUE
    ELSE IF a[1] # b[1] THEN Ord(a[1]) < Ord(b[1])
    ELSE StrLess(Tail(a), Tail(b))

\* SUBSTR(modified, 1, 4)
Substr4(s) == SubSeq(s, 1, Min(4, Len(s)))

\* csv.writer.writerow of a one-field row: an empty field is written quoted
CsvWriteRow(v) == IF v = <<>> THEN <<"\"", "\"">> ELSE v

\* csv.reader on one line of such a file: the list of fields, [] for a
\* blank line
CsvReadLine(line) ==
    IF line = <<>> THEN <<>>
    ELSE IF line = <<"\"", "\"">> THEN << <<>> >>
    ELSE <<line>>

\* the values kept by "for row in r: if row: append(row[0])" when the
\* distinct values vals went through the temporary csv file
ThroughCsv(vals) ==
    { CsvReadLine(CsvWriteRow(v))[1] : v \in { w \in vals : CsvReadLine(CsvWriteRow(w)) # <<>> } }

NA == <<"N", "/", "A">>

RowIdx(t) == 1..Len(t.rows)

\* SELECT COUNT(*) from siegfried
NumFiles(t) == Len(t.rows)

\* SELECT COUNT(*) from siegfried where filesize='0'
EmptyFiles(t) == Cardinality({i \in RowIdx(t) : Col(t, t.rows[i], "filesize") = "0"})

\* SELECT COUNT(DISTINCT hash) from siegfried WHERE filesize<>'0'
DistinctFiles(t) ==
    Cardinality({Col(t, t.rows[i], "hash") :
                   i \in {j \in RowIdx(t) : Col(t, t.rows[j], "filesize") # "0"}})

\* the rows selected by
\*   FROM siegfried t1 WHERE EXISTS (SELECT 1 from siegfried t2 WHERE
\*   t2.hash = t1.hash AND t1.filename != t2.filename) AND filesize<>'0'
\* (the filesize test is on t1 only)
DupeRows(t) ==
    {i \in RowIdx(t) :
        /\ \E j \in RowIdx(t) :
              /\ Col(t, t.rows[j], "hash") = Col(t, t.rows[i], "hash")
              /\ Col(t, t.rows[i], "filename") # Col(t, t.rows[j], "filename")
        /\ Col(t, t.rows[i], "filesize") # "0"}

\* SELECT COUNT(hash) ...
AllDupes(t) == Cardinality(DupeRows(t))

\* SELECT COUNT(DISTINCT hash) ...
DistinctDupes(t) == Cardinality({Col(t, t.rows[i], "hash") : i \in DupeRows(t)})

\* the files without a format name
UnidentifiedFiles_byformat(t) ==
    Cardinality({i \in RowIdx(t) : Col(t, t.rows[i], "format") = ""})

\* SELECT COUNT(*) FROM siegfried WHERE id='UNKNOWN'
UnidentifiedFiles(t) == Cardinality({i \in RowIdx(t) : Col(t, t.rows[i], "id") = "UNKNOWN"})

\* SELECT DISTINCT SUBSTR(modified, 1, 4), through uniqueyears.csv
Years(t) == ThroughCsv({Substr4(Col(t, t.rows[i], "modified")) : i \in RowIdx(t)})

\* SELECT DISTINCT modified, through datemodified.csv
Dates(t) == ThroughCsv({Col(t, t.rows[i], "modified") : i \in RowIdx(t)})

\* min(years, key=float) and max(years, key=float)
MinYear(ys) == CHOOSE y \in ys : \A z \in ys : FloatVal(y) <= FloatVal(z)
MaxYear(ys) == CHOOSE y \in ys : \A z \in ys : FloatVal(z) <= FloatVal(y)

\* min(dates) and max(dates)
MinDate(ds) == CHOOSE d \in ds : \A e \in ds : ~StrLess(e, d)
MaxDate(ds) == CHOOSE d \in ds : \A e \in ds : ~StrLess(d, e)

\* SELECT COUNT(DISTINCT format) from siegfried WHERE format <> ''
NumFormats(t) ==
    Cardinality({Col(t, t.rows[i], "format") :
                   i \in {j \in RowIdx(t) : Col(t, t.rows[j], "format") # ""}})

\* SELECT COUNT(*) FROM siegfried WHERE errors <> ''
NumErrors(t) == Cardinality({i \in RowIdx(t) : Col(t, t.rows[i], "errors") # ""})

\* SELECT COUNT(*) FROM siegfried WHERE warning <> ''
NumWarnings(t) == Cardinality({i \in RowIdx(t) : Col(t, t.rows[i], "warning") # ""})

\* get_stats raises: the table is missing, the hash column is missing, or
\* float() is handed a year that is not a number
GetStatsRaises(t, hashed) ==
    \/ ~t.exists
    \/ hashed /\ ~t.hashed
    \/ \E y \in Years(t) : ~FloatOk(y)

NoStats == [written |-> FALSE]

\* the figures get_stats writes into the report
GetStatsResult(t, hashed) ==
    [written |-> TRUE,
     hashed |-> hashed,
     num_files |-> NumFiles(t),
     empty_files |-> EmptyFiles(t),
     distinct_files |-> IF hashed THEN DistinctFiles(t) ELSE 0,
     distinct_dupes |-> IF hashed THEN DistinctDupes(t) ELSE 0,
     duplicate_copies |-> IF hashed THEN AllDupes(t) - DistinctDupes(t) ELSE 0,
     unidentified_files |-> UnidentifiedFiles(t),
     begin_date |-> IF Years(t) = {} THEN NA ELSE MinYear(Years(t)),
     end_date |-> IF Years(t) = {} THEN NA ELSE MaxYear(Years(t)),
     earliest_date |-> IF Dates(t) = {} THEN NA ELSE MinDate(Dates(t)),
     latest_date |-> IF Dates(t) = {} THEN NA ELSE MaxDate(Dates(t)),
     num_formats |-> NumFormats(t),
     num_errors |-> NumErrors(t),
     num_warnings |-> NumWarnings(t)]

\* ------------------------------------------------- the store: one run
\* the number of data rows siegfried may write in the current run
RowBound == IF run < MaxRuns THEN MaxPriorRows ELSE MaxRows

InitStore ==
    /\ run = 1
    /\ pc = "run_siegfried"
    /\ use_hash \in BOOLEAN
    /\ sf_file = <<>>
    /\ table = NoTable
    /\ stats = NoStats
    /\ csv_dir = {}

\* run_siegfried: sf writes one more line of siegfried.csv, the header first
SfWriteLine ==
    /\ pc = "run_siegfried"
    /\ Len(sf_file) < 1 + RowBound
    /\ \E line \in (IF sf_file = <<>> THEN Headers ELSE DataRows) :
          sf_file' = Append(sf_file, line)
    /\ UNCHANGED <<run, pc, use_hash, table, stats, csv_dir>>

\* process_content: import_csv(cursor, conn, use_hash)
ImportCsv ==
    /\ pc = "run_siegfried"
    /\ LET res == ImportCsvResult(sf_file, use_hash, table)
       IN  /\ table' = res.table
           /\ pc' = IF res.raised THEN "import_raised" ELSE "imported"
    /\ UNCHANGED <<run, use_hash, sf_file, stats, csv_dir>>

\* the temporary files in csv_dir when get_stats is left, given those found
\* there: the queries on the table and on the hash column come first; then
\* uniqueyears.csv is written and, unless float() raises, removed; then
\* datemodified.csv is written and removed
TempFilesLeft(t, hashed, found) ==
    IF ~t.exists \/ (hashed /\ ~t.hashed) THEN found
    ELSE IF \E y \in Years(t) : ~FloatOk(y) THEN found \cup {"uniqueyears.csv"}
    ELSE found \ {"uniqueyears.csv", "datemodified.csv"}

\* process_content: get_stats(...)
GetStats ==
    /\ pc = "imported"
    /\ IF GetStatsRaises(table, use_hash)
       THEN pc' = "stats_raised" /\ stats' = stats
       ELSE pc' = "stats_written" /\ stats' = GetStatsResult(table, use_hash)
    /\ csv_dir' = TempFilesLeft(table, use_hash, csv_dir)
    /\ UNCHANGED <<run, use_hash, sf_file, table>>

\* main is started again on the same destination: siegfried.sqlite is still
\* there, siegfried.csv is overwritten by the shell redirection
NewRun ==
    /\ pc \in {"import_raised", "stats_raised", "stats_written"}
    /\ run < MaxRuns
    /\ run' = run + 1
    /\ pc' = "run_siegfried"
    /\ use_hash' \in BOOLEAN
    /\ sf_file' = <<>>
    /\ stats' = NoStats
    /\ UNCHANGED <<table, csv_dir>>

\* ----------------------------------------------------- write_pronom_links
\* the literal parts of the hyperlink; none of them holds an "f" followed by
\* "mt/" nor an "x", so no identifier starts in or runs across one of them
\* and each can stand as a single element of the text
LinkOpen == "<a href=\"http://nationalarchives.gov.uk/PRONOM/"
LinkMid == "\" target=\"_blank\">"
LinkClose == "</a>"

Fmt == <<"f", "m", "t", "/">>
XFmt == <<"x", "-", "f", "m", "t", "/">>

\* the pieces a draft is built from
Tokens == {Fmt, <<"x", "-">>, <<"1">>, <<"2">>, <<" ">>, <<"\n">>}

RECURSIVE Drafts(_)
Drafts(n) ==
    IF n = 0 THEN {<<>>}
    ELSE Drafts(n - 1) \cup {d \o t : d \in Drafts(n - 1), t \in Tokens}

\* s starts with p
StartsWith(s, p) == Len(s) >= Len(p) /\ SubSeq(s, 1, Len(p)) = p

\* the length of the longest run of digits s starts with: [0-9]+ is greedy
RECURSIVE DigitRun(_)
DigitRun(s) == IF s # <<>> /\ s[1] \in Digits THEN 1 + DigitRun(Tail(s)) ELSE 0

\* the length of the match of fmt\/[0-9]+|x\-fmt\/[0-9]+ at the start of s,
\* 0 when there is none; the first alternative is tried first
MatchLen(s) ==
    IF StartsWith(s, Fmt) /\ DigitRun(SubSeq(s, 5, Len(s))) > 0
    THEN 4 + DigitRun(SubSeq(s, 5, Len(s)))
    ELSE IF StartsWith(s, XFmt) /\ DigitRun(SubSeq(s, 7, Len(s))) > 0
    THEN 6 + DigitRun(SubSeq(s, 7, Len(s)))
    ELSE 0

\* re.findall(regex, line): the non-overlapping matches, left to right
RECURSIVE FindAll(_)
FindAll(s) ==
    IF s = <<>> THEN <<>>
    ELSE IF MatchLen(s) > 0
    THEN <<SubSeq(s, 1, MatchLen(s))>> \o FindAll(SubSeq(s, MatchLen(s) + 1, Len(s)))
    ELSE FindAll(Tail(s))

\* s.replace(old, new) for a non-empty old: every non-overlapping occurrence,
\* left to right
RECURSIVE StrReplace(_, _, _)
StrReplace(s, old, new) ==
    IF Len(s) < Len(old) THEN s
    ELSE IF StartsWith(s, old)
    THEN new \o StrReplace(SubSeq(s, Len(old) + 1, Len(s)), old, new)
    ELSE <<s[1]>> \o StrReplace(Tail(s), old, new)

\* "<a href=\"http://nationalarchives.gov.uk/PRONOM/" + match +
\* "\" target=\"_blank\">" + match + "</a>"
PronomLink(match) == <<LinkOpen>> \o match \o <<LinkMid>> \o match \o <<LinkClose>>

\* the loop "for match in pronom_links_to_replace" run over matches
RECURSIVE ReplaceEach(_, _)
ReplaceEach(line, matches) ==
    IF matches = <<>> THEN line
    ELSE ReplaceEach(StrReplace(line, matches[1], PronomLink(matches[1])), Tail(matches))

\* the body of "for line in in_file": what is written for line
RewriteLine(line) == ReplaceEach(line, FindAll(line))

\* iterating over a text file: the lines, each with its line end
RECURSIVE FileLines(_)
FileLines(text) ==
    IF text = <<>> THEN <<>>
    ELSE IF \E i \in 1..Len(text) : text[i] = "\n"
    THEN LET n == CHOOSE i \in 1..Len(text) :
                     text[i] = "\n" /\ \A k \in 1..(i - 1) : text[k] # "\n"
         IN  <<SubSeq(text, 1, n)>> \o FileLines(SubSeq(text, n + 1, Len(text)))
    ELSE <<text>>

LinksIdle == lpc = "idle" /\ in_file = <<>> /\ out_file = <<>>

InitLinks ==
    /\ lpc = "lines"
    /\ in_file \in Drafts(MaxTokens)
    /\ out_file = <<>>

\* one round of "for line in in_file"
WritePronomLinksLine ==
    /\ lpc = "lines"
    /\ Len(out_file) < Len(FileLines(in_file))
    /\ out_file' = Append(out_file, RewriteLine(FileLines(in_file)[Len(out_file) + 1]))
    /\ UNCHANGED <<lpc, in_file>>

\* the loop is over: in_file.close(), out_file.close()
WritePronomLinksClose ==
    /\ lpc = "lines"
    /\ Len(out_file) = Len(FileLines(in_file))
    /\ lpc' = "closed"
    /\ UNCHANGED <<in_file, out_file>>

StoreIdle ==
    /\ run = 1 /\ pc = "idle" /\ use_hash = TRUE /\ sf_file = <<>>
    /\ table = NoTable /\ stats = NoStats /\ csv_dir = {}

\* ------------------------------------------------------------------ main
Args == [noclam : BOOLEAN, bulkextractor : BOOLEAN, showwarnings : BOOLEAN,
         use_hash : BOOLEAN, diskimage : BOOLEAN, hfs : BOOLEAN,
         removefiles : BOOLEAN]

NoArgs == [noclam |-> FALSE, bulkextractor |-> FALSE, showwarnings |-> FALSE,
           use_hash |-> FALSE, diskimage |-> FALSE, hfs |-> FALSE,
           removefiles |-> FALSE]

MainIdle ==
    /\ mpc = "idle" /\ args = NoArgs /\ html = <<>> /\ html_open = FALSE
    /\ conn_open = FALSE /\ files = {} /\ log = <<>> /\ failure = "none"

PiiHeader == "Personally Identifiable Information (PII)"

\* the process has ended
Ended == {"done", "exited", "raised"}

InitMain ==
    /\ mpc = "start"
    /\ args \in Args
    /\ html = <<>>
    /\ html_open = FALSE
    /\ conn_open = FALSE
    /\ files = {}
    /\ log = <<>>
    /\ failure = "none"

\* main: html = open(temp_html, 'w'); conn = sqlite3.connect(db)
MainOpen ==
    /\ mpc = "start"
    /\ html_open' = TRUE
    /\ conn_open' = TRUE
    /\ files' = files \cup {"temp.html", "siegfried.sqlite"}
    /\ mpc' = "characterize"
    /\ UNCHANGED <<args, html, log, failure>>

\* main, source is a disk image: carve the files into tempdir.  unhfs is
\* run with subprocess.call, which does not raise CalledProcessError;
\* tsk_recover is run with check_output, whose failure ends the process
\* after shutil.rmtree(report_dir)
MainCarve ==
    /\ mpc = "characterize"
    /\ args.diskimage
    /\ \E carved \in BOOLEAN :
          IF args.hfs \/ carved
          THEN /\ files' = files \cup {"carved_files"}
               /\ mpc' = "run_clamav"
               /\ UNCHANGED failure
          ELSE /\ files' = {}
               /\ mpc' = "exited"
               /\ failure' = "carve"
    /\ UNCHANGED <<args, html, html_open, conn_open, log>>

\* main, source is a directory: os.path.isdir(source), sys.exit() if not
MainCheckSource ==
    /\ mpc = "characterize"
    /\ ~args.diskimage
    /\ \E isdir \in BOOLEAN :
          IF isdir
          THEN mpc' = "run_clamav" /\ UNCHANGED failure
          ELSE mpc' = "exited" /\ failure' = "not_a_directory"
    /\ UNCHANGED <<args, html, html_open, conn_open, files, log>>

\* main: if args.noclam == False: run_clamav(...); the log is opened for
\* appending, so it exists afterwards whatever clamscan did
MainRunClamav ==
    /\ mpc = "run_clamav"
    /\ files' = IF args.noclam THEN files ELSE files \cup {"viruscheck-log.txt"}
    /\ mpc' = "run_siegfried"
    /\ UNCHANGED <<args, html, html_open, conn_open, log, failure>>

\* process_content: run_siegfried(...); the redirection creates sf_file
MainRunSiegfried ==
    /\ mpc = "run_siegfried"
    /\ files' = files \cup {"siegfried.csv"}
    /\ mpc' = "import_csv"
    /\ UNCHANGED <<args, html, html_open, conn_open, log, failure>>

\* process_content: import_csv(...); it raises when ImportCsvResult does
MainImportCsv ==
    /\ mpc = "import_csv"
    /\ \E raised \in BOOLEAN :
          IF raised
          THEN mpc' = "raised" /\ failure' = "import_csv" /\ UNCHANGED log
          ELSE mpc' = "get_stats" /\ log' = Append(log, "import") /\ UNCHANGED failure
    /\ UNCHANGED <<args, html, html_open, conn_open, files>>

\* the links with the one to the warnings written always
TocLinks_all(a) ==
    <<"toc:File formats", "toc:File formats and versions", "toc:MIME types",
      "toc:Last modified dates by year", "toc:Unidentified", "toc:Warnings",
      "toc:Errors">>
    \o (IF a.use_hash THEN <<"toc:Duplicates">> ELSE <<>>)
    \o (IF a.bulkextractor THEN <<"toc:" \o PiiHeader>> ELSE <<>>)

\* the links get_stats writes under "Detailed reports"
TocLinks(a) ==
    <<"toc:File formats", "toc:File formats and versions", "toc:MIME types",
      "toc:Last modified dates by year", "toc:Unidentified">>
    \o (IF a.showwarnings THEN <<"toc:Warnings">> ELSE <<>>)
    \o <<"toc:Errors">>
    \o (IF a.use_hash THEN <<"toc:Duplicates">> ELSE <<>>)
    \o (IF a.bulkextractor THEN <<"toc:" \o PiiHeader>> ELSE <<>>)

\* process_content: get_stats(...).  The queries come first and raise when
\* GetStatsRaises does; then the summary is written, then the virus scan
\* report (the note, or the log, whose open raises if it is missing), then
\* the links
MainGetStats ==
    /\ mpc = "get_stats"
    /\ \E raised \in BOOLEAN :
          IF raised
          THEN /\ mpc' = "raised" /\ failure' = "get_stats"
               /\ UNCHANGED <<html, log>>
          ELSE IF args.noclam
          THEN /\ html' = html \o <<"summary", "h2:Virus scan report",
                                    "Virus scan skipped.">> \o TocLinks(args)
               /\ mpc' = "generate_reports" /\ log' = Append(log, "stats")
               /\ UNCHANGED failure
          ELSE IF "viruscheck-log.txt" \in files
          THEN /\ html' = html \o <<"summary", "h2:Virus scan report",
                                    "virus_report">> \o TocLinks(args)
               /\ mpc' = "generate_reports" /\ log' = Append(log, "stats")
               /\ UNCHANGED failure
          ELSE /\ html' = html \o <<"summary", "h2:Virus scan report">>
               /\ mpc' = "raised" /\ failure' = "virus_log_missing"
               /\ UNCHANGED log
    /\ UNCHANGED <<args, html_open, conn_open, files>>

\* the sections generate_reports hands to write_html, in order
ReportSections(a) ==
    <<"section:File formats", "section:File formats and versions",
      "section:MIME types", "section:Last modified dates by year",
      "section:Unidentified">>
    \o (IF a.showwarnings THEN <<"section:Warnings">> ELSE <<>>)
    \o <<"section:Errors">>
    \o (IF a.use_hash THEN <<"section:Duplicates">> ELSE <<>>)

\* process_content: generate_reports(...)
MainGenerateReports ==
    /\ mpc = "generate_reports"
    /\ html' = html \o ReportSections(args)
    /\ files' = files \cup {"csv_reports"}
    /\ log' = Append(log, "sections")
    /\ mpc' = "close_html"
    /\ UNCHANGED <<args, html_open, conn_open, failure>>

\* process_content: close_html(html), then make_tree(source_dir)
MainCloseHtml ==
    /\ mpc = "close_html"
    /\ html' = html \o <<"</body>", "</html>">>
    /\ files' = files \cup {"tree.txt"}
    /\ log' = Append(log, "close_tags")
    /\ mpc' = "run_bulkext"
    /\ UNCHANGED <<args, html_open, conn_open, failure>>

\* main: if args.bulkextractor == True: run_bulkext(...); bulk_extractor
\* leaves pii.txt, or nothing when it is missing or fails
MainRunBulkext ==
    /\ mpc = "run_bulkext"
    /\ IF args.bulkextractor
       THEN /\ \E produced \in BOOLEAN :
                  files' = IF produced THEN files \cup {"pii.txt"} ELSE files
            /\ mpc' = "write_pii"
       ELSE /\ mpc' = "removefiles"
            /\ UNCHANGED files
    /\ UNCHANGED <<args, html, html_open, conn_open, log, failure>>

\* main: write_html('Personally Identifiable Information (PII)', pii.txt,
\* '\t', html); open(path) raises when pii.txt is missing
MainWritePii ==
    /\ mpc = "write_pii"
    /\ IF "pii.txt" \in files
       THEN /\ html' = Append(html, "section:" \o PiiHeader)
            /\ log' = Append(log, "pii")
            /\ mpc' = "removefiles"
            /\ UNCHANGED failure
       ELSE /\ mpc' = "raised"
            /\ failure' = "pii_log_missing"
            /\ UNCHANGED <<html, log>>
    /\ UNCHANGED <<args, html_open, conn_open, files>>

\* main: if args.removefiles == True: shutil.rmtree(tempdir) (disk images
\* only), then html.close()
MainHtmlClose ==
    /\ mpc = "removefiles"
    /\ files' = IF args.diskimage /\ args.removefiles
                THEN files \ {"carved_files"} ELSE files
    /\ html_open' = FALSE
    /\ mpc' = "write_pronom_links"
    /\ UNCHANGED <<args, html, conn_open, log, failure>>

\* main: write_pronom_links(temp_html, new_html)
MainWritePronomLinks ==
    /\ mpc = "write_pronom_links"
    /\ files' = files \cup {"basename.html"}
    /\ log' = Append(log, "rewrite")
    /\ mpc' = "remove_temp"
    /\ UNCHANGED <<args, html, html_open, conn_open, failure>>

\* main: os.remove(temp_html)
MainRemoveTemp ==
    /\ mpc = "remove_temp"
    /\ files' = files \ {"temp.html"}
    /\ log' = Append(log, "discard_draft")
    /\ mpc' = "close_db"
    /\ UNCHANGED <<args, html, html_open, conn_open, failure>>

\* main: cursor.close(); conn.close()
MainCloseDb ==
    /\ mpc = "close_db"
    /\ conn_open' = FALSE
    /\ mpc' = "done"
    /\ UNCHANGED <<args, html, html_open, files, log, failure>>

\* ------------------------------------------------------- sqlite_to_csv
\* the rows the reports are drawn from: three kinds of identification ...
Profiles ==
    { [id |-> "fmt/1", format |-> "F", version |-> "1", mime |-> "m",
       modified |-> <<"2", "0", "0", "1", "-", "0", "5">>, errors |-> "", warning |-> ""],
      [id |-> "fmt/2", format |-> "F", version |-> "2", mime |-> "n",
       modified |-> <<"1", "9", "9", "9", "-", "1", "2">>, errors |-> "e", warning |-> "w"],
      [id |-> "UNKNOWN", format |-> "", version |-> "", mime |-> "",
       modified |-> <<"2", "0", "0", "1", "-", "0", "5">>, errors |-> "", warning |-> "w"] }

\* ... of files that may share a name, a hash, or be empty
ReportRow(fn, sz, h, p) ==
    <<fn, sz, p.modified, p.errors, h, "pronom", p.id, p.format, p.version,
      p.mime, "b", p.warning>>

ReportRows ==
    { ReportRow(fn, sz, h, p) : fn \in Filenames, sz \in Sizes, h \in Hashes,
                                p \in {q \in Profiles : q.id = "fmt/1"} }
    \cup { ReportRow(fn, "10", h, p) : fn \in Filenames, h \in Hashes,
                                      p \in {q \in Profiles : q.id = "fmt/2"} }
    \cup { ReportRow(<<"A">>, "10", "H1", p) : p \in {q \in Profiles : q.id = "UNKNOWN"} }

\* a row of the table without the hash column
DropHash(r) == SubSeq(r, 1, 4) \o SubSeq(r, 6, Len(r))

RECURSIVE SeqsUpTo(_, _)
SeqsUpTo(S, n) ==
    IF n = 0 THEN {<<>>}
    ELSE SeqsUpTo(S, n - 1) \cup {Append(q, x) : q \in SeqsUpTo(S, n - 1), x \in S}

\* non-empty files of one kind that share names and hashes: the tables with
\* more than one group of duplicates are made of these
CopyRows ==
    { ReportRow(fn, "10", h, p) : fn \in Filenames, h \in Hashes,
                                  p \in {q \in Profiles : q.id = "fmt/1"} }

\* the tables import_csv can have left, by width
ReportTables ==
    { [exists |-> TRUE, hashed |-> TRUE, rows |-> rs] : rs \in SeqsUpTo(ReportRows, MaxReportRows) }
    \cup { [exists |-> TRUE, hashed |-> TRUE, rows |-> rs] : rs \in SeqsUpTo(CopyRows, MaxCopyRows) }
    \cup { [exists |-> TRUE, hashed |-> FALSE, rows |-> rs] :
             rs \in SeqsUpTo({DropHash(r) : r \in ReportRows}, MaxReportRows) }

\* full_header: the header row of the reports that select whole rows
FullHeader(hashed) ==
    IF hashed
    THEN <<<<"Filename">>, "Filesize", <<"Date modified">>, "Errors", "Checksum",
           "Namespace", "ID", "Format", "Format version", "MIME type",
           "Basis for ID", "Warning">>
    ELSE <<<<"Filename">>, "Filesize", <<"Date modified">>, "Errors",
           "Namespace", "ID", "Format", "Format version", "MIME type",
           "Basis for ID", "Warning">>

\* the sections of generate_reports, in the order of the code
SectionNames ==
    <<"File formats", "File formats and versions", "MIME types",
      "Last modified dates by year", "Unidentified", "Warnings", "Errors",
      "Duplicates">>

\* the header row sqlite_to_csv is given for the section
SectionHeader(name, hashed) ==
    CASE name = "File formats" -> <<"Format", "ID", "Count">>
      [] name = "File formats and versions" -> <<"Format", "ID", "Version", "Count">>
      [] name = "MIME types" -> <<"MIME type", "Count">>
      [] name = "Last modified dates by year" -> <<<<"Year Last Modified">>, "Count">>
      [] OTHER -> FullHeader(hashed)

\* the GROUP BY key of a row in the grouped sections
GroupKey(name, t, r) ==
    CASE name = "File formats" -> Col(t, r, "format")
      [] name = "File formats and versions" -> <<Col(t, r, "format"), Col(t, r, "version")>>
      [] name = "MIME types" -> Col(t, r, "mime")
      [] name = "Last modified dates by year" -> Substr4(Col(t, r, "modified"))

\* the result row of a group: the selected columns of the row r that sqlite
\* takes the bare columns from, and COUNT(*) as written by csv.writer
GroupRow(name, t, r, num) ==
    CASE name = "File formats" ->
            <<Col(t, r, "format"), Col(t, r, "id"), ToString(num)>>
      [] name = "File formats and versions" ->
            <<Col(t, r, "format"), Col(t, r, "id"), Col(t, r, "version"), ToString(num)>>
      [] name = "MIME types" -> <<Col(t, r, "mime"), ToString(num)>>
      [] name = "Last modified dates by year" ->
            <<Substr4(Col(t, r, "modified")), ToString(num)>>

\* the orders in which the elements of I can be returned under ORDER BY:
\* rank decides, rows of equal rank come in any order
Orderings(I, rank) ==
    { f \in [1..Cardinality(I) -> I] :
        /\ \A a, b \in 1..Cardinality(I) : a # b => f[a] # f[b]
        /\ \A a, b \in 1..Cardinality(I) : a < b => rank[f[a]] <= rank[f[b]] }

\* SELECT ..., COUNT(*) as 'num' FROM siegfried GROUP BY ... ORDER BY num
\* DESC: one row per key; a selected column that is not in GROUP BY comes
\* from some row of the group
GroupedResults(name, t) ==
    LET keys == {GroupKey(name, t, t.rows[i]) : i \in RowIdx(t)}
        members(k) == {i \in RowIdx(t) : GroupKey(name, t, t.rows[i]) = k}
        picks == { f \in [keys -> RowIdx(t)] : \A k \in keys : f[k] \in members(k) }
    IN  { [n \in 1..Cardinality(keys) |->
             GroupRow(name, t, t.rows[f[o[n]]], Cardinality(members(o[n])))] :
            f \in picks,
            o \in Orderings(keys, [k \in keys |-> 0 - Cardinality(members(k))]) }

\* the rows selected by the WHERE clause of the sections that list whole rows
FilterRows(name, t) ==
    CASE name = "Unidentified" -> {i \in RowIdx(t) : Col(t, t.rows[i], "id") = "UNKNOWN"}
      [] name = "Warnings" -> {i \in RowIdx(t) : Col(t, t.rows[i], "warning") # ""}
      [] name = "Errors" -> {i \in RowIdx(t) : Col(t, t.rows[i], "errors") # ""}
      [] name = "Duplicates" -> DupeRows(t)

\* the place of a hash value under ORDER BY hash
HashRank(h) == IF h = "H1" THEN 1 ELSE 2

\* the i-th smallest element of the set of numbers I
RECURSIVE Sorted(_)
Sorted(I) ==
    IF I = {} THEN <<>>
    ELSE LET m == CHOOSE x \in I : \A y \in I : x <= y
         IN  <<m>> \o Sorted(I \ {m})

\* SELECT * FROM siegfried WHERE ...: the rows in table order, or, for the
\* duplicates, ORDER BY hash
FilteredResults(name, t) ==
    IF name = "Duplicates"
    THEN { [n \in 1..Cardinality(FilterRows(name, t)) |-> t.rows[o[n]]] :
             o \in Orderings(FilterRows(name, t),
                             [i \in FilterRows(name, t) |->
                                HashRank(Col(t, t.rows[i], "hash"))]) }
    ELSE { [n \in 1..Cardinality(FilterRows(name, t)) |->
              t.rows[Sorted(FilterRows(name, t))[n]]] }

Grouped == {"File formats", "File formats and versions", "MIME types",
            "Last modified dates by year"}

\* the results the query of the section can return
QueryResults(name, t) ==
    IF name \in Grouped THEN GroupedResults(name, t) ELSE FilteredResults(name, t)

\* sqlite_to_csv(sql, path, header, cursor): the lines of the file, each
\* as the row csv.reader reads from it. The cells drawn here hold no comma,
\* quotation mark or line end, so csv.writer writes each row on one line and
\* cell by cell as it is; the count was made a string by the writer.
SqliteToCsv(header, rows) == <<header>> \o rows

\* ------------------------------------------------------------ write_html
\* one html.write: a tag, and the text it carries if any
Part(k, c) == [kind |-> k, cell |-> c]

RECURSIVE Flatten(_)
Flatten(ss) == IF ss = <<>> THEN <<>> ELSE ss[1] \o Flatten(Tail(ss))

\* '\n<td>' + column + '</td>' for every column of row
TdCells(row) == [j \in 1..Len(row) |-> Part("td", row[j])]

\* '\n<td><strong>' + column + '</strong></td>' for every column of row
ThCells(row) == [j \in 1..Len(row) |-> Part("th", row[j])]

\* '\n<tr>', the cells, '\n</tr>'
DataTr(row) == <<Part("tr", "")>> \o TdCells(row) \o <<Part("/tr", "")>>

\* list(OrderedDict.fromkeys(xs))
RECURSIVE Dedupe(_)
Dedupe(xs) ==
    IF xs = <<>> THEN <<>>
    ELSE LET front == Dedupe(SubSeq(xs, 1, Len(xs) - 1))
         IN  IF \E i \in 1..Len(front) : front[i] = xs[Len(xs)]
             THEN front ELSE Append(front, xs[Len(xs)])

\* xs.remove(x): without the first x
RemoveFirst(xs, x) ==
    LET n == CHOOSE i \in 1..Len(xs) : xs[i] = x /\ \A k \in 1..(i - 1) : xs[k] # x
    IN  SubSeq(xs, 1, n - 1) \o SubSeq(xs, n + 1, Len(xs))

\* the anchor, the title and the note of a section
SectionHead(header) ==
    <<Part("anchor", header), Part("h3", header)>>
    \o (IF header = "Duplicates" THEN <<Part("note", "Duplicates are grouped by hash value.")>>
        ELSE IF header = PiiHeader
        THEN <<Part("note", "Potential PII in source, as identified by bulk_extractor.")>>
        ELSE <<>>)

\* the PII branch: islice(r, 4, None) hands out the fifth row, the inner
\* loop takes all rows after it, and the outer loop then finds r exhausted
PiiBody(rows, numline) ==
    IF numline > 5
    THEN <<Part("table", ""), Part("tr", ""), Part("th", "File"),
           Part("th", "Value Found"), Part("th", "Context")>>
         \o (IF Len(rows) >= 5
             THEN <<Part("/tr", "")>>
                  \o Flatten([k \in 1..(Len(rows) - 5) |-> DataTr(rows[k + 5])])
                  \o <<Part("/table", "")>>
             ELSE <<>>)
    ELSE <<Part("text", "None found.")>>

\* hash_list: row[4] of every row, deduplicated, 'Checksum' removed
HashList(rows) ==
    RemoveFirst(Dedupe([k \in 1..Len(rows) |-> rows[k][5]]), "Checksum")

\* the sub-table of one hash value holding every row of the file
DuplicateGroup_all(rows, hash_value) ==
    <<Part("caption", hash_value), Part("table", ""), Part("tr", "")>>
    \o ThCells(FullHeader(TRUE))
    \o <<Part("/tr", "")>>
    \o Flatten([k \in 1..Len(rows) |-> DataTr(rows[k])])
    \o <<Part("/table", "")>>

\* the sub-table of one hash value: all rows of the file are read again
DuplicateGroup(rows, hash_value) ==
    <<Part("caption", hash_value), Part("table", ""), Part("tr", "")>>
    \o ThCells(FullHeader(TRUE))
    \o <<Part("/tr", "")>>
    \o Flatten([k \in 1..Len(rows) |->
                  IF rows[k][5] = hash_value THEN DataTr(rows[k]) ELSE <<>>])
    \o <<Part("/table", "")>>

\* the Duplicates branch
DuplicatesBody(rows, numline) ==
    IF numline > 1
    THEN Flatten([n \in 1..Len(HashList(rows)) |-> DuplicateGroup(rows, HashList(rows)[n])])
    ELSE <<Part("text", "None found.")>>

\* PlainBody with the line count compared to 2
PlainBody_two(rows, numline) ==
    IF numline > 2
    THEN <<Part("table", ""), Part("tr", "")>> \o ThCells(rows[1]) \o <<Part("/tr", "")>>
         \o Flatten([k \in 1..(Len(rows) - 1) |-> DataTr(rows[k + 1])])
         \o <<Part("/table", "")>>
    ELSE <<Part("text", "None found.")>>

\* the branch of every other section
PlainBody(rows, numline) ==
    IF numline > 1
    THEN <<Part("table", ""), Part("tr", "")>> \o ThCells(rows[1]) \o <<Part("/tr", "")>>
         \o Flatten([k \in 1..(Len(rows) - 1) |-> DataTr(rows[k + 1])])
         \o <<Part("/table", "")>>
    ELSE <<Part("text", "None found.")>>

\* write_html(header, path, file_delimiter, html) on a file of numline
\* lines from which csv.reader reads rows
WriteHtml(header, rows, numline) ==
    SectionHead(header)
    \o (IF header = PiiHeader THEN PiiBody(rows, numline)
        ELSE IF header = "Duplicates" THEN DuplicatesBody(rows, numline)
        ELSE PlainBody(rows, numline))
    \o <<Part("top", "Return to top")>>

\* ------------------------------------------------------ generate_reports
\* pii.txt as bulk_extractor writes it, each line character by character:
\* five lines of banner, then one line for every finding, made of the
\* offset, the value found and the bytes around it, with tabs between; the
\* bytes around a value may hold a quotation mark. A log cut short has
\* fewer lines.
TAB == "\t"
QUOTE == "\""
NL == "\n"
PiiFindings ==
    { <<"1", TAB, "v", TAB, "c">>,
      <<"2", TAB, "v", TAB, QUOTE, "c">>,
      <<"3", TAB, "v", TAB, "c", QUOTE>> }
PiiBanner == [k \in 1..5 |-> <<"#">>]
PiiLogs ==
    { SubSeq(PiiBanner, 1, n) : n \in 0..Min(5, MaxPiiLines) }
    \cup { PiiBanner \o fs : fs \in SeqsUpTo(PiiFindings, MaxPiiLines - 5) }

\* csv.reader(in_file, delimiter='\t') on the characters cs, from the state
\* st of the reader with the field and the row read so far: the rows. A
\* quotation mark at the start of a field opens a quoted field, which runs
\* to the next single quotation mark, across tabs and line ends, or to the
\* end of the file.
RECURSIVE CsvParse(_, _, _, _)
CsvParse(cs, st, field, row) ==
    IF cs = <<>>
    THEN IF st = "start_record" THEN <<>> ELSE <<Append(row, field)>>
    ELSE LET c == cs[1]
             rest == Tail(cs)
         IN  CASE st \in {"start_record", "start_field"} ->
                    (IF c = NL
                     THEN <<(IF st = "start_record" THEN <<>> ELSE Append(row, <<>>))>>
                          \o CsvParse(rest, "start_record", <<>>, <<>>)
                     ELSE IF c = QUOTE THEN CsvParse(rest, "in_quoted", <<>>, row)
                     ELSE IF c = TAB THEN CsvParse(rest, "start_field", <<>>, Append(row, <<>>))
                     ELSE CsvParse(rest, "in_field", <<c>>, row))
               [] st = "in_field" ->
                    (IF c = NL
                     THEN <<Append(row, field)>> \o CsvParse(rest, "start_record", <<>>, <<>>)
                     ELSE IF c = TAB THEN CsvParse(rest, "start_field", <<>>, Append(row, field))
                     ELSE CsvParse(rest, "in_field", Append(field, c), row))
               [] st = "in_quoted" ->
                    (IF c = QUOTE THEN CsvParse(rest, "quote_in_quoted", field, row)
                     ELSE CsvParse(rest, "in_quoted", Append(field, c), row))
               [] st = "quote_in_quoted" ->
                    (IF c = QUOTE THEN CsvParse(rest, "in_quoted", Append(field, QUOTE), row)
                     ELSE IF c = NL
                     THEN <<Append(row, field)>> \o CsvParse(rest, "start_record", <<>>, <<>>)
                     ELSE IF c = TAB THEN CsvParse(rest, "start_field", <<>>, Append(row, field))
                     ELSE CsvParse(rest, "in_field", Append(field, c), row))

\* the rows csv.reader yields for the lines of a tab-delimited file
CsvReader(lines) ==
    CsvParse(Flatten([k \in 1..Len(lines) |-> Append(lines[k], NL)]), "start_record", <<>>, <<>>)

ReportIdle ==
    /\ rpc = 0 /\ rtable = NoTable
    /\ rflags = [use_hash |-> FALSE, showwarnings |-> FALSE]
    /\ section = "" /\ result = <<>> /\ csv_file = <<>>
    /\ wrote_html = FALSE /\ section_html = <<>>

\* generate_reports is entered after import_csv and get_stats: the table
\* exists, and has the hash column when use_hash is set
InitReport ==
    /\ rpc = 1
    /\ rtable \in ReportTables
    /\ rflags \in [use_hash : BOOLEAN, showwarnings : BOOLEAN]
    /\ rflags.use_hash => rtable.hashed
    /\ section = "" /\ result = <<>> /\ csv_file = <<>>
    /\ wrote_html = FALSE /\ section_html = <<>>

\* generate_reports: the next section: its query, sqlite_to_csv, write_html
\* (for the warnings only if args.showwarnings)
GenerateReport ==
    /\ rpc \in 1..Len(SectionNames)
    /\ SectionNames[rpc] = "Duplicates" => rflags.use_hash
    /\ LET name == SectionNames[rpc]
       IN  \E rows \in QueryResults(name, rtable) :
              /\ section' = name
              /\ result' = rows
              /\ csv_file' = SqliteToCsv(SectionHeader(name, rflags.use_hash), rows)
              /\ wrote_html' = (name = "Warnings" => rflags.showwarnings)
              /\ section_html' = IF wrote_html'
                                  THEN WriteHtml(name, csv_file', Len(csv_file'))
                                  ELSE <<>>
    /\ rpc' = rpc + 1
    /\ UNCHANGED <<rtable, rflags>>

\* generate_reports without hashing: there is no duplicates report
SkipDuplicates ==
    /\ rpc \in 1..Len(SectionNames)
    /\ SectionNames[rpc] = "Duplicates" /\ ~rflags.use_hash
    /\ rpc' = rpc + 1
    /\ UNCHANGED <<rtable, rflags, section, result, csv_file, wrote_html, section_html>>

\* main: write_html('Personally Identifiable Information (PII)', pii.txt,
\* '\t', html) on the log bulk_extractor left
WriteHtmlPii ==
    /\ rpc = Len(SectionNames) + 1
    /\ \E pii \in PiiLogs :
          /\ section' = PiiHeader
          /\ result' = <<>>
          /\ csv_file' = pii
          /\ wrote_html' = TRUE
          /\ section_html' = WriteHtml(PiiHeader, CsvReader(pii), Len(pii))
    /\ rpc' = rpc + 1
    /\ UNCHANGED <<rtable, rflags>>

\* ---------------------------------------------------------- convert_size
\* A size is the sequence of its base-1024 digits, the highest first; <<0>>
\* is zero. The sizes tried lie on and next to the places where the label
\* changes: a leading digit 1, 2 or 1023, then up to four digits of 0, 512
\* or 1023, then zeros.
RECURSIVE Zeros(_)
Zeros(n) == IF n = 0 THEN <<>> ELSE <<0>> \o Zeros(n - 1)

NonZeroSizes ==
    UNION { { <<lead>> \o rest \o Zeros(n - 1 - Len(rest)) :
                lead \in {1, 2, 1023},
                rest \in [1..Min(4, n - 1) -> {0, 512, 1023}] } : n \in 1..MaxDigits }

SizesInBytes == {<<0>>} \cup NonZeroSizes

size_name == <<"bytes", "KB", "MB", "GB", "TB", "PB", "EB", "ZB", "YB">>

\* math.log(size, 1024) is a quotient of two doubles: for a size within one
\* part in 2^50 below a power 1024^n, n >= 5, it is the double n itself, and
\* below that it is less than n. Of the sizes above these are the ones that
\* begin with five digits 1023.
LogIsNextPower(d) == Len(d) >= 5 /\ \A k \in 1..5 : d[k] = 1023

\* i = int(math.floor(math.log(size, 1024)))
LogFloor(d) == IF LogIsNextPower(d) THEN Len(d) ELSE Len(d) - 1

\* size / math.pow(1024, i): the whole part, and the digits after the point
Whole(d, i) == IF i = Len(d) THEN 0 ELSE d[1]
Fraction(d, i) == IF i = Len(d) THEN d ELSE Tail(d)

\* a fraction compared with one half: -1 below, 0 equal, 1 above
CompareToHalf(f) ==
    IF f = <<>> \/ f[1] < 512 THEN 0 - 1
    ELSE IF f[1] > 512 \/ \E k \in 2..Len(f) : f[k] # 0 THEN 1
    ELSE 0

\* round(size / p): python 3 rounds a half to the even neighbour, python 2
\* away from zero
Round(w, f, py) ==
    CASE CompareToHalf(f) < 0 -> w
      [] CompareToHalf(f) > 0 -> w + 1
      [] OTHER -> IF py = 3 /\ w % 2 = 0 THEN w ELSE w + 1

\* convert_size(size): the label as the number and the unit, or the
\* IndexError of size_name[i]. str(s).replace('.0', '') leaves the digits
\* of a whole number as they are: python 2 prints the float with one '.0'
\* at its end, python 3 prints an int.
ConvertSize(d, py) ==
    IF d = <<0>> THEN [raised |-> FALSE, n |-> 0, unit |-> "bytes"]
    ELSE LET i == LogFloor(d)
         IN  IF i + 1 > Len(size_name)
             THEN [raised |-> TRUE, n |-> 0, unit |-> "IndexError"]
             ELSE [raised |-> FALSE,
                   n |-> Round(Whole(d, i), Fraction(d, i), py),
                   unit |-> size_name[i + 1]]

NoSize == [raised |-> FALSE, n |-> 0, unit |-> ""]

SizeIdle == spc = "idle" /\ python = 3 /\ size_bytes = <<0>> /\ size = NoSize

InitSize ==
    /\ spc = "call"
    /\ python \in {2, 3}
    /\ size_bytes \in SizesInBytes
    /\ size = NoSize

\* get_stats: size = convert_size(size_bytes)
CallConvertSize ==
    /\ spc = "call"
    /\ size' = ConvertSize(size_bytes, python)
    /\ spc' = "returned"
    /\ UNCHANGED <<python, size_bytes>>

NextMain ==
    \/ MainOpen /\ UNCHANGED <<storeVars, linkVars, reportVars, sizeVars>>
    \/ MainCarve /\ UNCHANGED <<storeVars, linkVars, reportVars, sizeVars>>
    \/ MainCheckSource /\ UNCHANGED <<storeVars, linkVars, reportVars, sizeVars>>
    \/ MainRunClamav /\ UNCHANGED <<storeVars, linkVars, reportVars, sizeVars>>
    \/ MainRunSiegfried /\ UNCHANGED <<storeVars, linkVars, reportVars, sizeVars>>
    \/ MainImportCsv /\ UNCHANGED <<storeVars, linkVars, reportVars, sizeVars>>
    \/ MainGetStats /\ UNCHANGED <<storeVars, linkVars, reportVars, sizeVars>>
    \/ MainGenerateReports /\ UNCHANGED <<storeVars, linkVars, reportVars, sizeVars>>
    \/ MainCloseHtml /\ UNCHANGED <<storeVars, linkVars, reportVars, sizeVars>>
    \/ MainRunBulkext /\ UNCHANGED <<storeVars, linkVars, reportVars, sizeVars>>
    \/ MainWritePii /\ UNCHANGED <<storeVars, linkVars, reportVars, sizeVars>>
    \/ MainHtmlClose /\ UNCHANGED <<storeVars, linkVars, reportVars, sizeVars>>
    \/ MainWritePronomLinks /\ UNCHANGED <<storeVars, linkVars, reportVars, sizeVars>>
    \/ MainRemoveTemp /\ UNCHANGED <<storeVars, linkVars, reportVars, sizeVars>>
    \/ MainCloseDb /\ UNCHANGED <<storeVars, linkVars, reportVars, sizeVars>>
MainInit == InitMain /\ StoreIdle /\ LinksIdle /\ ReportIdle /\ SizeIdle
SpecMain == MainInit /\ [][NextMain]_vars

NextLinks ==
    \/ WritePronomLinksLine /\ UNCHANGED <<storeVars, mainVars, reportVars, sizeVars>>
    \/ WritePronomLinksClose /\ UNCHANGED <<storeVars, mainVars, reportVars, sizeVars>>
LinksInit == InitLinks /\ StoreIdle /\ MainIdle /\ ReportIdle /\ SizeIdle
SpecLinks == LinksInit /\ [][NextLinks]_vars

NextReport ==
    \/ GenerateReport /\ UNCHANGED <<storeVars, linkVars, mainVars, sizeVars>>
    \/ SkipDuplicates /\ UNCHANGED <<storeVars, linkVars, mainVars, sizeVars>>
    \/ WriteHtmlPii /\ UNCHANGED <<storeVars, linkVars, mainVars, sizeVars>>
ReportInit == InitReport /\ StoreIdle /\ LinksIdle /\ MainIdle /\ SizeIdle
SpecReport == ReportInit /\ [][NextReport]_vars

NextSize == CallConvertSize /\ UNCHANGED <<storeVars, linkVars, mainVars, reportVars>>
SizeInit == InitSize /\ StoreIdle /\ LinksIdle /\ MainIdle /\ ReportIdle
SpecSize == SizeInit /\ [][NextSize]_vars

Init == InitStore /\ LinksIdle /\ MainIdle /\ ReportIdle /\ SizeIdle
Next ==
    \/ SfWriteLine /\ UNCHANGED <<linkVars, mainVars, reportVars, sizeVars>>
    \/ ImportCsv /\ UNCHANGED <<linkVars, mainVars, reportVars, sizeVars>>
    \/ GetStats /\ UNCHANGED <<linkVars, mainVars, reportVars, sizeVars>>
    \/ NewRun /\ UNCHANGED <<linkVars, mainVars, reportVars, sizeVars>>
Spec == Init /\ [][Next]_vars

\* ================================================================ claims
\* the data rows of the input whose column count is the header's, as read
MatchingRows(f) ==
    SelectSeq(Tail(ReadRows(f)), LAMBDA r : Len(r) = Len(ReadRows(f)[1]))

\* C1: for every input with a header row, once import_csv has run no error
\* was raised and the siegfried table holds exactly the data rows whose
\* column count equals the header's, each as read, in input order.
C1_ImportKeepsMatchingRows ==
    (pc \in {"imported", "import_raised"} /\ sf_file # <<>>) =>
        /\ pc = "imported"
        /\ table.exists
        /\ table.rows = MatchingRows(sf_file)

\* C2: for every input, the empty one included, and every prior content of
\* the store, after import_csv returns every row of the siegfried table is a
\* data row of the current input, and importing the same input again leaves
\* the table as it is.
C2_ImportReplacesTable ==
    pc = "imported" =>
        /\ \A i \in RowIdx(table) :
              \E k \in 2..Len(sf_file) : table.rows[i] = ReadRow(sf_file[k])
        /\ ImportCsvResult(sf_file, use_hash, table).table = table

\* the non-empty-file records of t
NonEmptyRows(t) == {i \in RowIdx(t) : Col(t, t.rows[i], "filesize") # "0"}

\* the hash values carried by at least two non-empty-file records of t with
\* different filenames
DuplicateHashes(t) ==
    {Col(t, t.rows[i], "hash") :
        i \in {k \in NonEmptyRows(t) :
                 \E j \in NonEmptyRows(t) :
                    /\ Col(t, t.rows[j], "hash") = Col(t, t.rows[k], "hash")
                    /\ Col(t, t.rows[j], "filename") # Col(t, t.rows[k], "filename")}}

\* C3: with hashing enabled, get_stats reports as distinct duplicates the
\* number of hash values carried by at least two non-empty-file records with
\* different filenames, and as duplicate copies the number of non-empty-file
\* records in those groups minus that number; a record of filesize "0" takes
\* no part.
C3_DuplicateCounts ==
    (pc = "stats_written" /\ use_hash) =>
        /\ stats.distinct_dupes = Cardinality(DuplicateHashes(table))
        /\ stats.duplicate_copies =
              Cardinality({i \in NonEmptyRows(table) :
                             Col(table, table.rows[i], "hash") \in DuplicateHashes(table)})
                - Cardinality(DuplicateHashes(table))

\* C4: with hashing enabled, the figures get_stats writes satisfy
\* total files = distinct files + duplicate copies + empty files.
C4_TotalIsDistinctPlusCopiesPlusEmpty ==
    (pc = "stats_written" /\ use_hash) =>
        stats.num_files = stats.distinct_files + stats.duplicate_copies + stats.empty_files

\* C5: for an input with zero data rows, with or without a header row,
\* get_stats raises no error and reports N/A for both ends of the year range
\* and for both ends of the date range.
C5_EmptyInputGivesSentinels ==
    (pc \in {"stats_written", "stats_raised"} /\ Len(sf_file) <= 1) =>
        /\ pc = "stats_written"
        /\ stats.begin_date = NA /\ stats.end_date = NA
        /\ stats.earliest_date = NA /\ stats.latest_date = NA

\* what the rewriter is required to write for line: every match of the
\* pattern replaced by its own hyperlink, everything else kept
RECURSIVE LinkedOnce(_)
LinkedOnce(s) ==
    IF s = <<>> THEN <<>>
    ELSE IF MatchLen(s) > 0
    THEN PronomLink(SubSeq(s, 1, MatchLen(s))) \o LinkedOnce(SubSeq(s, MatchLen(s) + 1, Len(s)))
    ELSE <<s[1]>> \o LinkedOnce(Tail(s))

\* the lines already written
Written == 1..Len(out_file)

\* line holds two or more identifiers, all different
DistinctIds(line) ==
    /\ Len(FindAll(line)) >= 2
    /\ \A i, j \in 1..Len(FindAll(line)) : i # j => FindAll(line)[i] # FindAll(line)[j]

\* C6: every line holding two or more distinct identifiers, whatever their
\* digits and prefixes, is written with each identifier replaced by exactly
\* one hyperlink to that full identifier and with the rest of the line
\* unchanged; lines are written in input order.
C6_DistinctIdsEachLinked ==
    \A n \in Written :
        DistinctIds(FileLines(in_file)[n]) =>
            out_file[n] = LinkedOnce(FileLines(in_file)[n])

\* line holds one identifier, two or more times
RepeatedId(line) ==
    /\ Len(FindAll(line)) >= 2
    /\ \A i \in 1..Len(FindAll(line)) : FindAll(line)[i] = FindAll(line)[1]

\* the number of hyperlinks opened in s
RECURSIVE LinkCount(_)
LinkCount(s) ==
    IF s = <<>> THEN 0
    ELSE (IF s[1] = LinkOpen THEN 1 ELSE 0) + LinkCount(Tail(s))

\* no hyperlink of s opens before the one before it is closed
NoNestedLink(s) ==
    \A i, j \in 1..Len(s) :
        (i < j /\ s[i] = LinkOpen /\ s[j] = LinkOpen) =>
            \E k \in (i + 1)..(j - 1) : s[k] = LinkClose

\* C7: a line with k >= 2 occurrences of one identifier is written with
\* exactly k hyperlinks, none of them inside the href or the label of
\* another.
C7_RepeatedIdLinkedOncePerOccurrence ==
    \A n \in Written :
        RepeatedId(FileLines(in_file)[n]) =>
            /\ LinkCount(out_file[n]) = Len(FindAll(FileLines(in_file)[n]))
            /\ NoNestedLink(out_file[n])

\* the place of event e in the log, 0 when it did not occur
Pos(e) == IF \E i \in 1..Len(log) : log[i] = e
          THEN CHOOSE i \in 1..Len(log) : log[i] = e
          ELSE 0

\* C8: in every completed run the events occur in the order import,
\* statistics, report sections, the PII section if the PII collaborator ran,
\* closing tags, link rewriter, draft deleted.
C8_OrchestratorOrder ==
    mpc = "done" =>
        /\ 0 < Pos("import") /\ Pos("import") < Pos("stats")
        /\ Pos("stats") < Pos("sections")
        /\ Pos("sections") < Pos("close_tags")
        /\ args.bulkextractor =>
              (Pos("sections") < Pos("pii") /\ Pos("pii") < Pos("close_tags"))
        /\ Pos("close_tags") < Pos("rewrite")
        /\ Pos("rewrite") < Pos("discard_draft")

\* C9: whichever way the process ends once the draft and the store
\* connection have been opened, both have been closed.
C9_ResourcesReleasedOnEveryExit ==
    mpc \in Ended => (~html_open /\ ~conn_open)

\* part p has been written to the draft
InHtml(p) == \E i \in 1..Len(html) : html[i] = p

\* C10: a missing antivirus log or PII log never ends the run early; the
\* run completes with the finished document, in which the section of the
\* missing log carries a "skipped" note.
C10_MissingOptionalLogIsSkipped ==
    mpc \in Ended =>
        /\ failure \notin {"virus_log_missing", "pii_log_missing"}
        /\ (mpc = "done" /\ "viruscheck-log.txt" \notin files) =>
              (InHtml("Virus scan skipped.") /\ "basename.html" \in files)
        /\ (mpc = "done" /\ args.bulkextractor /\ "pii.txt" \notin files) =>
              (InHtml("PII scan skipped.") /\ "basename.html" \in files)


\* the positions of section_html holding a part of kind k
PartsOf(k) == {n \in 1..Len(section_html) : section_html[n].kind = k}

\* a section of the store has just been rendered by write_html
StoreSectionRendered ==
    /\ \E n \in 1..Len(SectionNames) : SectionNames[n] = section
    /\ wrote_html

\* C11: a section rendered from a query result holds a table tag if and
\* only if the result has at least one row; with zero rows it holds the
\* text 'None found.', once, and no table tag; in both cases the 'Return
\* to top' link is written once, after everything else
C11_TableIffRows ==
    StoreSectionRendered =>
        /\ (PartsOf("table") # {}) <=> (Len(result) >= 1)
        /\ Len(result) = 0 =>
              /\ Cardinality(PartsOf("text")) = 1
              /\ \A n \in PartsOf("text") : section_html[n].cell = "None found."
              /\ PartsOf("table") = {}
        /\ Len(result) >= 1 => PartsOf("text") = {}
        /\ PartsOf("top") = {Len(section_html)}

\* the duplicates section of a store that has rows but no duplicates
C11_Witness ==
    /\ StoreSectionRendered
    /\ section = "Duplicates"
    /\ Len(rtable.rows) > 0
    /\ result = <<>>
    /\ PartsOf("text") # {}

\* a plain section of one row, rendered as a table
C11_WitnessTable ==
    /\ StoreSectionRendered
    /\ section = "Errors"
    /\ Len(result) = 1
    /\ PartsOf("table") # {}

\* the number written by base-1024 digits
RECURSIVE DigitsVal(_)
DigitsVal(d) == IF d = <<>> THEN 0 ELSE DigitsVal(SubSeq(d, 1, Len(d) - 1)) * 1024 + d[Len(d)]

\* the place in size_name of the largest unit whose power of 1024 does not
\* exceed the size
LargestUnit(d) == Min(Len(d), Len(size_name))

\* the whole numbers nearest to the size divided by the power of that unit
NearestWhole(d) ==
    LET k == Len(d) - LargestUnit(d) + 1
        w == DigitsVal(SubSeq(d, 1, k))
        c == CompareToHalf(SubSeq(d, k + 1, Len(d)))
    IN  IF c < 0 THEN {w} ELSE IF c > 0 THEN {w + 1} ELSE {w, w + 1}

\* C12: convert_size gives '0 bytes' for 0 and, for every other size, the
\* largest unit whose power of 1024 does not exceed the size together with
\* the size divided by that power, rounded to the nearest whole number
C12_SizeLabel ==
    spc = "returned" =>
        IF size_bytes = <<0>>
        THEN size = [raised |-> FALSE, n |-> 0, unit |-> "bytes"]
        ELSE /\ ~size.raised
             /\ size.unit = size_name[LargestUnit(size_bytes)]
             /\ size.n \in NearestWhole(size_bytes)

\* C12, the sizes of at most four digits: there the label is the claimed one
C12_SizeLabelBelowOneTB ==
    spc = "returned" /\ Len(size_bytes) <= 4 =>
        IF size_bytes = <<0>>
        THEN size = [raised |-> FALSE, n |-> 0, unit |-> "bytes"]
        ELSE /\ ~size.raised
             /\ size.unit = size_name[LargestUnit(size_bytes)]
             /\ size.n \in NearestWhole(size_bytes)

\* 1024^5 - 1 bytes come back as 1 PB
C12_OnePetabyte ==
    /\ spc = "returned"
    /\ size_bytes = <<1023, 1023, 1023, 1023, 1023>>
    /\ size = [raised |-> FALSE, n |-> 1, unit |-> "PB"]

\* every row of the store has id = "UNKNOWN"
AllUnknown(t) == \A i \in RowIdx(t) : Col(t, t.rows[i], "id") = "UNKNOWN"

\* C13 as stated: for a store whose rows all have id "UNKNOWN", get_stats
\* reports unidentified files = total files and identified formats = 0
C13_AllUnknownNoFormats ==
    (pc = "stats_written" /\ AllUnknown(table)) =>
        /\ stats.unidentified_files = stats.num_files
        /\ stats.num_formats = 0

\* C13, amended: for a store whose rows all have id "UNKNOWN", get_stats
\* reports unidentified files = total files = the number of rows, and as
\* identified formats the number of distinct non-empty format values of the
\* rows: 0 exactly when every row's format is empty
C13_AllUnknownFormatsByName ==
    (pc = "stats_written" /\ AllUnknown(table)) =>
        /\ stats.unidentified_files = stats.num_files
        /\ stats.num_files = Len(table.rows)
        /\ stats.num_formats =
              Cardinality({Col(table, table.rows[i], "format") : i \in RowIdx(table)} \ {""})
        /\ (stats.num_formats = 0) <=>
              \A i \in RowIdx(table) : Col(table, table.rows[i], "format") = ""

\* a store of unidentified files only, one of them carrying a format name
C13_Witness ==
    /\ pc = "stats_written"
    /\ table.rows # <<>>
    /\ AllUnknown(table)
    /\ \E i \in RowIdx(table) : Col(table, table.rows[i], "format") # ""
    /\ stats.unidentified_files = Len(table.rows)
    /\ stats.num_formats = 1

\* the number of parts of the document equal to x
Occurrences(x) == Cardinality({k \in 1..Len(html) : html[k] = x})

\* the headers write_html can be called with
AllSections == {SectionNames[n] : n \in 1..Len(SectionNames)} \cup {PiiHeader}

\* the run's flags ask for the section
Requested(name) ==
    CASE name = "Warnings" -> args.showwarnings
      [] name = "Duplicates" -> args.use_hash
      [] name = PiiHeader -> args.bulkextractor
      [] OTHER -> TRUE

\* C14: the finished document holds each of the six unconditional sections
\* once, Warnings exactly when args.showwarnings, Duplicates exactly when
\* use_hash, PII exactly when bulk_extractor was run; and the links written
\* by get_stats name exactly the anchors of these sections, each once
C14_SectionsAndLinksFollowFlags ==
    mpc = "done" =>
        \A name \in AllSections :
            /\ Occurrences("section:" \o name) = (IF Requested(name) THEN 1 ELSE 0)
            /\ Occurrences("toc:" \o name) = Occurrences("section:" \o name)

\* a finished run with warnings shown, without hashing, with bulk_extractor
C14_Witness ==
    /\ mpc = "done"
    /\ args.showwarnings /\ ~args.use_hash /\ args.bulkextractor
    /\ Occurrences("section:" \o PiiHeader) = 1
    /\ Occurrences("toc:Warnings") = 1
    /\ Occurrences("section:Duplicates") = 0

\* the grouping key the section is said to have, of row r of the table t
StatedKey(name, t, r) ==
    CASE name = "File formats" -> <<Col(t, r, "format"), Col(t, r, "id")>>
      [] name = "File formats and versions" ->
             <<Col(t, r, "format"), Col(t, r, "id"), Col(t, r, "version")>>
      [] name = "MIME types" -> <<Col(t, r, "mime")>>
      [] name = "Last modified dates by year" -> <<Substr4(Col(t, r, "modified"))>>

\* the rows of the table with the key k
KeyMembers(name, t, k) == {i \in RowIdx(t) : StatedKey(name, t, t.rows[i]) = k}

\* C15: a grouped section has exactly one row for every distinct value of
\* its key in the store, showing that key and the number of records with it:
\* (format, id) for File formats, (format, id, version) for File formats and
\* versions, mime for MIME types, the first four characters of modified for
\* Last modified dates by year
C15_OneRowPerKey ==
    (section \in Grouped /\ rpc > 1) =>
        /\ Len(result) = Cardinality({StatedKey(section, rtable, rtable.rows[i]) : i \in RowIdx(rtable)})
        /\ \A i \in RowIdx(rtable) :
              LET k == StatedKey(section, rtable, rtable.rows[i])
              IN  Cardinality({n \in 1..Len(result) :
                     /\ SubSeq(result[n], 1, Len(k)) = k
                     /\ result[n][Len(k) + 1] = ToString(Cardinality(KeyMembers(section, rtable, k)))}) = 1

\* C15 for the two sections whose query groups by its whole key
C15_OneRowPerKeyMimeAndYear ==
    (section \in {"MIME types", "Last modified dates by year"} /\ rpc > 1) =>
        /\ Len(result) = Cardinality({StatedKey(section, rtable, rtable.rows[i]) : i \in RowIdx(rtable)})
        /\ \A i \in RowIdx(rtable) :
              LET k == StatedKey(section, rtable, rtable.rows[i])
              IN  Cardinality({n \in 1..Len(result) :
                     /\ SubSeq(result[n], 1, Len(k)) = k
                     /\ result[n][Len(k) + 1] = ToString(Cardinality(KeyMembers(section, rtable, k)))}) = 1

\* two records of one format and two ids, and a File formats section of one row
C15_TwoIdsOneRow ==
    /\ section = "File formats"
    /\ Len(rtable.rows) = 2
    /\ Col(rtable, rtable.rows[1], "format") = Col(rtable, rtable.rows[2], "format")
    /\ Col(rtable, rtable.rows[1], "id") # Col(rtable, rtable.rows[2], "id")
    /\ Len(result) = 1

\* the data rows among the parts ps: the cells of every <tr> made of <td>
RECURSIVE TdRows(_)
TdRows(ps) ==
    IF ps = <<>> THEN <<>>
    ELSE IF ps[1].kind # "tr" THEN TdRows(Tail(ps))
    ELSE LET n == CHOOSE m \in 2..Len(ps) :
                      ps[m].kind = "/tr" /\ \A k \in 2..(m - 1) : ps[k].kind # "/tr"
             cells == SubSeq(ps, 2, n - 1)
         IN  (IF cells # <<>> /\ \A k \in 1..Len(cells) : cells[k].kind = "td"
              THEN << [k \in 1..Len(cells) |-> cells[k].cell] >>
              ELSE <<>>)
             \o TdRows(SubSeq(ps, n + 1, Len(ps)))

\* the places of the captions, in order
Captions == Sorted(PartsOf("caption"))

\* the parts from the k-th caption up to the next caption or the back-link
CaptionGroup(k) ==
    SubSeq(section_html, Captions[k],
           IF k < Len(Captions) THEN Captions[k + 1] - 1 ELSE Len(section_html) - 1)

\* the hash values of the result in first-seen order
ResultHashes == Dedupe([k \in 1..Len(result) |-> result[k][5]])

\* C16: a non-empty duplicates result is rendered as one sub-table for every
\* distinct hash value, in first-seen order of the hash values, each after a
\* caption naming the hash; the rows of a sub-table are the result rows with
\* that hash, each once; the header row of the csv file is neither a group
\* nor a data row
C16_DuplicatesGroupedByHash ==
    (section = "Duplicates" /\ wrote_html /\ result # <<>>) =>
        /\ Len(Captions) = Len(ResultHashes)
        /\ \A k \in 1..Len(Captions) :
              /\ section_html[Captions[k]].cell = ResultHashes[k]
              /\ section_html[Captions[k]].cell # "Checksum"
              /\ Cardinality({n \in 1..Len(CaptionGroup(k)) : CaptionGroup(k)[n].kind = "table"}) = 1
              /\ CaptionGroup(k)[2].kind = "table"
              /\ TdRows(CaptionGroup(k)) =
                    SelectSeq(result, LAMBDA r : r[5] = ResultHashes[k])
        /\ Cardinality(PartsOf("table")) = Len(ResultHashes)
        /\ Len(TdRows(section_html)) = Len(result)
        /\ \A n \in 1..Len(TdRows(section_html)) : TdRows(section_html)[n] # FullHeader(TRUE)

\* two groups of duplicates rendered as two sub-tables
C16_Witness ==
    /\ section = "Duplicates" /\ wrote_html
    /\ Len(result) = 4
    /\ Len(ResultHashes) = 2
    /\ Len(Captions) = 2
    /\ Len(TdRows(CaptionGroup(2))) = 2


\* the fields of a line of the log: the characters between the tabs
RECURSIVE Fields(_)
Fields(line) ==
    IF \A k \in 1..Len(line) : line[k] # TAB THEN <<line>>
    ELSE LET n == CHOOSE m \in 1..Len(line) :
                      line[m] = TAB /\ \A k \in 1..(m - 1) : line[k] # TAB
         IN  <<SubSeq(line, 1, n - 1)>> \o Fields(SubSeq(line, n + 1, Len(line)))

\* the characters of a cell other than quotation marks
Unquoted(cell) == SelectSeq(cell, LAMBDA c : c # QUOTE)

\* the table row is the one of the line: as many cells as the line has
\* fields, the first of them the line's first field
RowOfLine(row, line) ==
    /\ Len(row) = Len(Fields(line))
    /\ Unquoted(row[1]) = Unquoted(Fields(line)[1])

\* what C17 asks of the section written for the log in csv_file
PiiSectionAsStated ==
    IF Len(csv_file) <= 5
    THEN /\ PartsOf("table") = {}
         /\ Cardinality(PartsOf("text")) = 1
         /\ \A n \in PartsOf("text") : section_html[n].cell = "None found."
    ELSE /\ Cardinality(PartsOf("table")) = 1
         /\ Cardinality(PartsOf("/table")) = 1
         /\ PartsOf("text") = {}
         /\ [n \in 1..Cardinality(PartsOf("th")) |-> section_html[Sorted(PartsOf("th"))[n]].cell]
               = <<"File", "Value Found", "Context">>
         /\ \A n \in PartsOf("th") : \A m \in PartsOf("td") : n < m
         /\ Len(TdRows(section_html)) = Len(csv_file) - 5
         /\ \A k \in 1..(Len(csv_file) - 5) :
               k <= Len(TdRows(section_html)) =>
                  RowOfLine(TdRows(section_html)[k], csv_file[k + 5])
         /\ \A n \in PartsOf("tr") \cup PartsOf("td") \cup PartsOf("th") \cup PartsOf("/tr") :
               /\ \A m \in PartsOf("table") : m < n
               /\ \A m \in PartsOf("/table") : n < m

\* C17: for a PII log of n lines, write_html writes 'None found.' and no
\* table when n <= 5; when n > 5 it writes one table, headed by File, Value
\* Found and Context, leaves out the five banner lines, renders every line
\* after them once and in order as one table row, and closes the table once
C17_PiiSection ==
    (section = PiiHeader /\ wrote_html) => PiiSectionAsStated

\* C17 for the logs whose lines after the banner begin no field with a
\* quotation mark
C17_PiiSectionNoQuotedField ==
    (/\ section = PiiHeader /\ wrote_html
     /\ \A k \in 6..Len(csv_file) : \A j \in 1..Len(Fields(csv_file[k])) :
           Fields(csv_file[k])[j] = <<>> \/ Fields(csv_file[k])[j][1] # QUOTE)
        => PiiSectionAsStated

\* two findings, the first with a quotation mark at the start of its
\* context, rendered as one row
C17_TwoLinesOneRow ==
    /\ section = PiiHeader /\ wrote_html
    /\ Len(csv_file) = 7
    /\ Len(TdRows(section_html)) = 1

\* get_stats finds the table of a run like its own: the table is
\* there, has rows, and has the hash column if the run hashes
StoreReady == table.exists /\ table.rows # <<>> /\ (use_hash => table.hashed)

\* the modified value is empty or begins with four digits
YearOrEmpty(md) == md = <<>> \/ (Len(md) >= 4 /\ \A k \in 1..4 : md[k] \in Digits)

ModifiedValues(t) == {Col(t, t.rows[i], "modified") : i \in RowIdx(t)}

\* the numeric value of a year prefix, and the year prefixes of the table
YearPrefixes(t) == {Substr4(md) : md \in ModifiedValues(t)}

\* what C18 asks of get_stats once it is left
DateRangesAsStated ==
    /\ pc = "stats_written"
    /\ \E lo, hi \in YearPrefixes(table) :
          /\ \A y \in YearPrefixes(table) : NatVal(lo) <= NatVal(y) /\ NatVal(y) <= NatVal(hi)
          /\ stats.begin_date = lo /\ stats.end_date = hi
    /\ \E lo, hi \in ModifiedValues(table) :
          /\ \A d \in ModifiedValues(table) : ~StrLess(d, lo) /\ ~StrLess(hi, d)
          /\ stats.earliest_date = lo /\ stats.latest_date = hi
    /\ "uniqueyears.csv" \notin csv_dir
    /\ "datemodified.csv" \notin csv_dir

\* C18: for every non-empty table whose modified values are empty or begin
\* with a four-digit year, get_stats raises no error, reports as year range
\* the numeric minimum and maximum of the distinct year prefixes and as date
\* range the string minimum and maximum of the distinct modified values, and
\* leaves neither uniqueyears.csv nor datemodified.csv behind
C18_DateRanges ==
    (/\ pc \in {"stats_written", "stats_raised"}
     /\ StoreReady
     /\ \A md \in ModifiedValues(table) : YearOrEmpty(md))
        => DateRangesAsStated

\* C18 for the tables in which every modified value begins with a year
C18_DateRangesAllDated ==
    (/\ pc \in {"stats_written", "stats_raised"}
     /\ StoreReady
     /\ \A md \in ModifiedValues(table) : md # <<>> /\ YearOrEmpty(md))
        => DateRangesAsStated

\* get_stats has raised on a record without a modification time and has
\* left uniqueyears.csv behind
C18_EmptyModifiedRaises ==
    /\ pc = "stats_raised"
    /\ StoreReady
    /\ \A md \in ModifiedValues(table) : YearOrEmpty(md)
    /\ <<>> \in ModifiedValues(table)
    /\ "uniqueyears.csv" \in csv_dir
====
